---- MODULE Spec2Model ----
(***************************************************************************)
(* QuickQR backend: registration, login, the JWT guard and the QR record   *)
(* endpoints, modelled as a state machine over the two relational tables   *)
(* (users, qr_codes), the wall clock and the tokens clients hold.          *)
(***************************************************************************)
EXTENDS Integers, Sequences, FiniteSets, TLC

VARIABLES
    users,      \* rows of table users
    nextUserId, \* ordinal of the next id the store generates for a users row
    qrs,        \* rows of table qr_codes
    nextQrId,   \* ordinal of the next id the store generates for a qr_codes row
    now,        \* wall clock, in seconds
    wallet,     \* tokens the service has issued and clients still hold
    reg,        \* register requests suspended between their SELECT and INSERT
    env,        \* process.env.NODE_ENV
    server,     \* the process: starting, listening or exited
    resp        \* the outcome of the last finished request

vars == <<users, nextUserId, qrs, nextQrId, now, wallet, reg, env, server, resp>>

---------------------------------------------------------------------------
(* Bounds of the model *)

MaxProcs == 2      \* register requests that may be in flight together
MaxQrId == 2       \* qr_codes rows ever inserted
MaxTicks == 2      \* clock advances
MaxTokens == 2     \* tokens kept by clients

---------------------------------------------------------------------------
(* Values *)

\* A JSON body field that is absent reads as undefined.
UNDEFINED == "<undefined>"

\* JavaScript truthiness of a string-or-undefined value: !v
Falsy(v) == v \in {UNDEFINED, ""}

\* a || b
OrElse(a, b) == IF Falsy(a) THEN b ELSE a

\* Texts that the code takes apart (url, name) are sequences of characters;
\* a whole word stands for its characters where the code never looks inside.
UndefinedText == <<UNDEFINED>>

\* A presence test that asks only whether the field was sent.
FalsyTextUndefinedOnly(x) == x = UndefinedText

\* !x, for a text
FalsyText(x) == x \in {UndefinedText, <<>>}

\* String.prototype.trim
RECURSIVE TrimStart(_)
TrimStart(x) == IF x # <<>> /\ Head(x) = " " THEN TrimStart(Tail(x)) ELSE x

RECURSIVE TrimEnd(_)
TrimEnd(x) ==
    IF x # <<>> /\ x[Len(x)] = " " THEN TrimEnd(SubSeq(x, 1, Len(x) - 1)) ELSE x

Trim(x) == TrimEnd(TrimStart(x))

Usernames == {"alice", "bob"}
Emails == {"alice@x.com", "bob@x.com"}
\* The password users register with, and one an impostor guesses.
Passwords == {"secret1"}
Guesses == {"secret2"}

UsernameInputs == Usernames \cup {UNDEFINED, ""}
EmailInputs == Emails \cup {UNDEFINED, ""}
PasswordInputs == Passwords \cup {UNDEFINED, ""}
LoginPasswordInputs == PasswordInputs \cup Guesses

\* The two register/login implementations of the controllers file.
Variants == {"pg", "prisma"}

\* Token validity window: 7 days, in seconds.
SevenDays == 604800

\* The clock values the model visits: MaxTicks advances of 1 s or 7 days.
RECURSIVE Times(_)
Times(k) ==
    IF k = 0 THEN {0}
    ELSE Times(k - 1) \cup {t + d : t \in Times(k - 1), d \in {1, SevenDays}}

Procs == 1..MaxProcs

NoResp == [op |-> "none"]
IdleReg == [pc |-> "idle"]

\* The process before startServer has run, and once it listens after a
\* connection test that passed.
Starting == [phase |-> "starting"]
Listening == [phase |-> "listening", db |-> TRUE]

\* req.user before any guard has attached an identity.
NoUser == [attached |-> FALSE]

\* The store generates row ids; the n-th id handed out.
UserId(n) == "u" \o ToString(n)
QrId(n) == "q" \o ToString(n)

---------------------------------------------------------------------------
(* Primitives: utils/hash.js, utils/jwt.js, utils/qrGenerator.js *)

\* bcrypt: a one-way hash, never equal to the password it hashes.
hashPassword(password) == "$2b$10$" \o password

\* bcrypt.compare rejects when the data argument is missing.
comparePasswordThrows(password, hash) == password = UNDEFINED

comparePassword(password, hash) == hash = hashPassword(password)

\* A token signed over {id, email}, valid for 7 days from issue.
generateToken(user, t) ==
    [userId |-> UNDEFINED, id |-> user.id, email |-> user.email,
     iat |-> t, exp |-> t + SevenDays, sig |-> "valid"]

\* The payload jwt.verify returns for a token it accepts.
Payload(tok) ==
    [attached |-> TRUE, userId |-> tok.userId, id |-> tok.id,
     email |-> tok.email, iat |-> tok.iat, exp |-> tok.exp]

\* jwt.verify accepts: the string is one well-formed token, its signature is
\* the issuer's, and the clock has not reached exp.
verifyTokenOk(token, t) ==
    /\ Len(token) = 1
    /\ token[1].kind = "jwt"
    /\ token[1].jwt.sig = "valid"
    /\ t < token[1].jwt.exp

\* QRCode.toDataURL(url): a data URL that is a function of the text given.
generateQR(url) == <<"data:image/png;base64,">> \o url

---------------------------------------------------------------------------
(* Header strings.  A header value is a sequence of parts: the literal      *)
(* "Bearer " and tokens; the empty sequence is the empty string.            *)

BearerPart == [kind |-> "Bearer "]
JwtPart(tok) == [kind |-> "jwt", jwt |-> tok]
JunkPart == [kind |-> "junk"]

NoHeader == [present |-> FALSE, value |-> <<>>]
HeaderOf(value) == [present |-> TRUE, value |-> value]

\* authHeader.startsWith('Bearer ')
StartsWithBearer(value) == Len(value) > 0 /\ value[1] = BearerPart

\* A slice that starts one character early: the blank stays on the token.
Slice6(value) == <<[kind |-> " "]>> \o Tail(value)

\* authHeader.slice(7), for a value that starts with 'Bearer '
Slice7(value) == Tail(value)

---------------------------------------------------------------------------
(* Auth guard: middleware *)

\* The error detail of the catch block: error.message in development,
\* undefined (so left out of the JSON) otherwise.
InvalidTokenBody(e) ==
    IF e = "development"
    THEN [success |-> FALSE, message |-> "Invalid or expired token",
          error |-> "jwt error"]
    ELSE [success |-> FALSE, message |-> "Invalid or expired token"]

\* A 401 sent without `return`: the guard goes on to call next().
RejectAndContinue(body) ==
    [next |-> TRUE, status |-> 401, body |-> body, user |-> NoUser]

Reject(body) == [next |-> FALSE, status |-> 401, body |-> body, user |-> NoUser]
Continue(user) == [next |-> TRUE, user |-> user]

\* Optional mode.  Never rejects; req.user is the payload or null.
NullUser == [attached |-> TRUE, null |-> TRUE]

\* An optional guard whose catch block answers as the strict one does.
optionalAuthRejecting(header, t) ==
    IF header.present /\ StartsWithBearer(header.value)
    THEN LET token == Slice7(header.value)
         IN IF verifyTokenOk(token, t)
            THEN Continue(Payload(token[1].jwt))
            ELSE Reject([success |-> FALSE, message |-> "Invalid or expired token"])
    ELSE Continue(NullUser)

optionalAuth(header, t) ==
    IF header.present /\ StartsWithBearer(header.value)
    THEN LET token == Slice7(header.value)
         IN IF verifyTokenOk(token, t)
            THEN Continue(Payload(token[1].jwt))
            ELSE Continue(NullUser)
    ELSE Continue(NullUser)

\* A strict guard that lets every request through, as the optional one does.
authenticateTokenLax(header, t, e) == optionalAuth(header, t)

\* A strict guard that takes the token from behind the prefix only:
\* authHeader.split(' ')[1]
authenticateTokenBearerOnly(header, t, e) ==
    IF ~header.present \/ header.value = <<>>
    THEN Reject([success |-> FALSE, message |-> "Authorization header is missing"])
    ELSE LET token == IF StartsWithBearer(header.value)
                      THEN Slice7(header.value)
                      ELSE <<>>
         IN IF token = <<>>
            THEN Reject([success |-> FALSE, message |-> "Token is missing"])
            ELSE IF verifyTokenOk(token, t)
            THEN Continue(Payload(token[1].jwt))
            ELSE Reject(InvalidTokenBody(e))

\* Strict mode.  The outcome is either a 401 response or next() with the
\* decoded payload attached as req.user.
authenticateToken(header, t, e) ==
    IF ~header.present \/ header.value = <<>>
    THEN Reject([success |-> FALSE, message |-> "Authorization header is missing"])
    ELSE LET token == IF StartsWithBearer(header.value)
                      THEN Slice7(header.value)
                      ELSE header.value
         IN IF token = <<>>
            THEN Reject([success |-> FALSE, message |-> "Token is missing"])
            ELSE IF verifyTokenOk(token, t)
            THEN Continue(Payload(token[1].jwt))
            ELSE Reject(InvalidTokenBody(e))

\* The guard the QR routes mount (import authMiddleware): the strict guard.
authMiddleware(header, t, e) == authenticateToken(header, t, e)

\* What a guard did with a request: whether it sent a response, whether it
\* called next(), and the req.user it left.
GuardResp(mode, header, t, g) ==
    LET sent == "status" \in DOMAIN g
    IN [op |-> mode, header |-> header, at |-> t, sent |-> sent,
        next |-> g.next, user |-> g.user,
        status |-> IF sent THEN g.status ELSE 0,
        body |-> IF sent THEN g.body ELSE [none |-> TRUE]]

---------------------------------------------------------------------------
(* Store constraints: scripts/setup-db.js *)

\* A users table created without its UNIQUE constraints.
UniqueViolationOff(table, username, email) == FALSE

\* A users table whose email column alone is UNIQUE.
UniqueViolationEmailOnly(table, username, email) ==
    \E u \in table : u.email = email

\* username VARCHAR(50) UNIQUE NOT NULL, email VARCHAR(255) UNIQUE NOT NULL:
\* an INSERT of (username, email) is refused when either is already stored.
UniqueViolation(table, username, email) ==
    \E u \in table : u.username = username \/ u.email = email

\* A client keeps the latest token it was handed for its user id; the model
\* follows the clients of up to MaxTokens user ids.
Keep(held, token) ==
    LET others == {t \in held : t.id # token.id}
    IN IF Cardinality(others) < MaxTokens THEN others \cup {token} ELSE held

---------------------------------------------------------------------------
(* Auth service: register *)

RegisterResp(username, email, password, status, body, sql) ==
    [op |-> "register",
     in |-> [username |-> username, email |-> email, password |-> password],
     status |-> status, body |-> body, sql |-> sql]

\* A validation that forgets the password.
MissingFieldNoPassword(username, email, password) ==
    Falsy(username) \/ Falsy(email)

\* if (!username || !email || !password)
MissingField(username, email, password) ==
    Falsy(username) \/ Falsy(email) \/ Falsy(password)

\* An existence check on the email alone.
ExistingUserEmailOnly(v, table, username, email) ==
    {u \in table : u.email = email}

\* The existence check: SELECT id FROM users WHERE email=$1 OR username=$2
\* (pg); prisma.user.findFirst({where: {OR: [{email}, {username}]}}).
ExistingUser(v, table, username, email) ==
    IF v = "pg"
    THEN {u \in table : u.email = email \/ u.username = username}
    ELSE {u \in table : \E c \in {"email", "username"} :
             u[c] = (IF c = "email" THEN email ELSE username)}

\* A new request takes the first free slot of the in-flight table.
FirstIdle(p) == reg[p].pc = "idle" /\ \A q \in Procs : q < p => reg[q].pc # "idle"

\* register up to its first store round trip: validation, then the
\* existence check; the request then awaits the hash and the INSERT.
RegisterStart(p, v, username, email, password) ==
    /\ FirstIdle(p)
    /\ IF MissingField(username, email, password)
       THEN /\ resp' = RegisterResp(username, email, password, 400,
                                    [message |-> "All fields are required"], <<>>)
            /\ UNCHANGED reg
       ELSE IF ExistingUser(v, users, username, email) # {}
       THEN /\ resp' = RegisterResp(username, email, password, 409,
                                    [message |-> "User already exists"],
                                    <<"SELECT users">>)
            /\ UNCHANGED reg
       ELSE /\ reg' = [reg EXCEPT ![p] =
                        [pc |-> "hash", username |-> username,
                         email |-> email, password |-> password]]
            /\ resp' = NoResp
    /\ UNCHANGED <<users, nextUserId, qrs, nextQrId, now, wallet, env, server>>

\* The user object of the 201: RETURNING id, username, email (pg); the
\* picked fields id, username, email of the created row (prisma).
RegisterUser(row) == [id |-> row.id, username |-> row.username, email |-> row.email]

\* register from the hash on: hashPassword, the INSERT (refused by the
\* store's UNIQUE constraints when a concurrent register got there first),
\* the token and the 201; the catch block turns the refusal into a 500.
RegisterFinish(p) ==
    /\ reg[p].pc = "hash"
    /\ LET r == reg[p]
           hashedPassword == hashPassword(r.password)
           row == [id |-> UserId(nextUserId), username |-> r.username,
                   email |-> r.email, password |-> hashedPassword,
                   created_at |-> now, updated_at |-> now]
           user == RegisterUser(row)
           token == generateToken(user, now)
       IN IF UniqueViolation(users, r.username, r.email)
          THEN /\ resp' = RegisterResp(r.username, r.email, r.password, 500,
                                       [message |-> "Registration failed"],
                                       <<"SELECT users", "INSERT users">>)
               /\ UNCHANGED <<users, nextUserId, wallet>>
          ELSE /\ users' = users \cup {row}
               /\ nextUserId' = nextUserId + 1
               /\ wallet' = Keep(wallet, token)
               /\ resp' = RegisterResp(r.username, r.email, r.password, 201,
                                       [message |-> "User registered successfully",
                                        user |-> user, token |-> token],
                                       <<"SELECT users", "INSERT users">>)
    /\ reg' = [reg EXCEPT ![p] = IdleReg]
    /\ UNCHANGED <<qrs, nextQrId, now, env, server>>

---------------------------------------------------------------------------
(* Auth service: login *)

LoginResp(v, email, password, status, body, sql) ==
    [op |-> "login", variant |-> v,
     in |-> [email |-> email, password |-> password],
     status |-> status, body |-> body, sql |-> sql]

\* A login that forgets to delete the password of the row it returns.
KeepPassword(user) == user

\* delete user.password
DeletePassword(user) == [f \in DOMAIN user \ {"password"} |-> user[f]]

\* The user object of the 200: the SELECT * row with its password deleted
\* (pg), or the picked fields id, username, email (prisma).
LoginUser(v, user) ==
    IF v = "pg" THEN DeletePassword(user)
    ELSE [id |-> user.id, username |-> user.username, email |-> user.email]

\* An unknown-email answer that says so.
UnknownEmailBodyLeaky == [message |-> "User not found"]

\* The 401 bodies of login: unknown email, and wrong password.
UnknownEmailBody == [message |-> "Invalid credentials"]
WrongPasswordBody == [message |-> "Invalid credentials"]

LoginOut(status, body, sql) == [status |-> status, body |-> body, sql |-> sql]

\* login as a function of the request, the table and the clock: the set of
\* responses it can send (one, as long as emails are unique).
login(v, table, email, password, t) ==
    LET rows == {u \in table : u.email = email}
    IN IF v = "prisma" /\ email = UNDEFINED
       THEN \* findUnique refuses a where clause with no unique field
            {LoginOut(500, [message |-> "Login failed"], <<>>)}
       ELSE IF rows = {}
       THEN {LoginOut(401, UnknownEmailBody, <<"SELECT users">>)}
       ELSE {IF comparePasswordThrows(password, user.password)
             THEN LoginOut(500, [message |-> "Login failed"], <<"SELECT users">>)
             ELSE IF ~comparePassword(password, user.password)
             THEN LoginOut(401, WrongPasswordBody, <<"SELECT users">>)
             ELSE LoginOut(200,
                           [message |-> "Login successful",
                            user |-> LoginUser(v, user),
                            token |-> generateToken(user, t)],
                           <<"SELECT users">>)
             : user \in rows}

\* POST /api/auth/login
Login(v, email, password) ==
    /\ \E out \in login(v, users, email, password, now) :
        /\ resp' = LoginResp(v, email, password, out.status, out.body, out.sql)
        /\ wallet' = IF out.status = 200 THEN Keep(wallet, out.body.token)
                     ELSE wallet
    /\ UNCHANGED <<users, nextUserId, qrs, nextQrId, now, reg, env, server>>

---------------------------------------------------------------------------
(* QR service: controllers *)

\* A resolution that prefers the other field: req.user.id || req.user.userId
SubjectIdIdFirst(user) == OrElse(user.id, user.userId)

\* const userId = req.user.userId || req.user.id
SubjectId(user) == OrElse(user.userId, user.id)

\* Reading a property of a req.user that is undefined or null throws.
NoIdentity(user) == "userId" \notin DOMAIN user

QrOut(status, body, sql, table, next) ==
    [status |-> status, body |-> body, sql |-> sql, table |-> table, next |-> next]

Untitled == <<"Untitled QR">>

\* A default that forgets to trim: name || 'Untitled QR'
NameOrDefaultUntrimmed(name) ==
    IF name \in {UndefinedText, <<>>} THEN Untitled ELSE name

\* name?.trim() || 'Untitled QR'
NameOrDefault(name) ==
    IF name = UndefinedText \/ Trim(name) = <<>> THEN Untitled ELSE Trim(name)

\* generateQRCode, given req.user, the body, the table, the next row id and
\* the clock.
generateQRCode(user, url, name, table, n, t) ==
    IF NoIdentity(user)
    THEN QrOut(500, [message |-> "QR generation failed"], <<>>, table, n)
    ELSE IF Falsy(SubjectId(user))
    THEN QrOut(401, [message |-> "User not authenticated"], <<>>, table, n)
    ELSE IF FalsyText(url)
    THEN QrOut(400, [message |-> "URL is required"], <<>>, table, n)
    ELSE LET imageUrl == generateQR(url)
             row == [id |-> QrId(n), user_id |-> SubjectId(user),
                     name |-> NameOrDefault(name), url |-> Trim(url),
                     image_url |-> imageUrl, created_at |-> t]
         IN QrOut(201, row, <<"INSERT qr_codes">>, table \cup {row}, n + 1)

\* The orders of an ORDER BY created_at that left out DESC.
AscOrders(S) ==
    {f \in [1..Cardinality(S) -> S] :
        /\ \A i, j \in 1..Cardinality(S) : i # j => f[i] # f[j]
        /\ \A i \in 1..(Cardinality(S) - 1) : f[i].created_at <= f[i + 1].created_at}

\* The orders ORDER BY created_at DESC may return the rows of S in.
DescOrders(S) ==
    {f \in [1..Cardinality(S) -> S] :
        /\ \A i, j \in 1..Cardinality(S) : i # j => f[i] # f[j]
        /\ \A i \in 1..(Cardinality(S) - 1) : f[i].created_at >= f[i + 1].created_at}

\* A history that forgets its WHERE clause.
OwnedByAnyone(table, userId) == table

\* SELECT * FROM qr_codes WHERE user_id = $1
OwnedBy(table, userId) == {r \in table : r.user_id = userId}

\* getQRHistory: the responses it can send.
getQRHistory(user, table, n) ==
    IF NoIdentity(user)
    THEN {QrOut(500, [message |-> "Failed to load QR history"], <<>>, table, n)}
    ELSE IF Falsy(SubjectId(user))
    THEN {QrOut(401, [message |-> "User not authenticated"], <<>>, table, n)}
    ELSE {QrOut(200, rows, <<"SELECT qr_codes">>, table, n) :
            rows \in DescOrders(OwnedBy(table, SubjectId(user)))}

\* A delete that matches on the id alone.
DeletedById(table, id, userId) == {r \in table : r.id = id}

\* DELETE FROM qr_codes WHERE id = $1 AND user_id = $2 RETURNING *
Deleted(table, id, userId) == {r \in table : r.id = id /\ r.user_id = userId}

\* A delete that answers 403 when the record exists but is someone else's.
deleteQRCodeLeaky(user, id, table, n) ==
    IF NoIdentity(user)
    THEN QrOut(500, [message |-> "Failed to delete QR"], <<>>, table, n)
    ELSE IF Falsy(SubjectId(user))
    THEN QrOut(401, [message |-> "User not authenticated"], <<>>, table, n)
    ELSE LET result == {r \in table : r.id = id /\ r.user_id = SubjectId(user)}
         IN IF Cardinality(result) = 0
            THEN IF \E r \in table : r.id = id
                 THEN QrOut(403, [message |-> "Not authorized"],
                            <<"DELETE qr_codes">>, table, n)
                 ELSE QrOut(404, [message |-> "QR not found or not authorized"],
                            <<"DELETE qr_codes">>, table, n)
            ELSE QrOut(200, [success |-> TRUE, id |-> id],
                       <<"DELETE qr_codes">>, table \ result, n)

\* A delete that answers 200 whether or not a row was removed.
deleteQRCodeIdempotent(user, id, table, n) ==
    IF NoIdentity(user)
    THEN QrOut(500, [message |-> "Failed to delete QR"], <<>>, table, n)
    ELSE IF Falsy(SubjectId(user))
    THEN QrOut(401, [message |-> "User not authenticated"], <<>>, table, n)
    ELSE QrOut(200, [success |-> TRUE, id |-> id], <<"DELETE qr_codes">>,
               table \ Deleted(table, id, SubjectId(user)), n)

\* deleteQRCode
deleteQRCode(user, id, table, n) ==
    IF NoIdentity(user)
    THEN QrOut(500, [message |-> "Failed to delete QR"], <<>>, table, n)
    ELSE IF Falsy(SubjectId(user))
    THEN QrOut(401, [message |-> "User not authenticated"], <<>>, table, n)
    ELSE LET result == Deleted(table, id, SubjectId(user))
         IN IF Cardinality(result) = 0
            THEN QrOut(404, [message |-> "QR not found or not authorized"],
                       <<"DELETE qr_codes">>, table, n)
            ELSE QrOut(200, [success |-> TRUE, id |-> id],
                       <<"DELETE qr_codes">>, table \ result, n)

---------------------------------------------------------------------------
(* QR routes: guard, then handler *)

RouteResp(op, header, in, t, status, body, handler, user, sql) ==
    [op |-> op, header |-> header, in |-> in, at |-> t, status |-> status,
     body |-> body, handler |-> handler, user |-> user, sql |-> sql]

\* What a route does once its guard has decided: the guard's 401, or the
\* handler's outcome applied to the store.
Routed(op, header, in, g, out) ==
    /\ IF g.next
       THEN /\ resp' = RouteResp(op, header, in, now, out.status, out.body,
                                 TRUE, g.user, out.sql)
            /\ qrs' = out.table
            /\ nextQrId' = out.next
       ELSE /\ resp' = RouteResp(op, header, in, now, g.status, g.body,
                                 FALSE, g.user, <<>>)
            /\ UNCHANGED <<qrs, nextQrId>>
    /\ UNCHANGED <<users, nextUserId, now, wallet, reg, env, server>>

\* router.post('/generate', authMiddleware, generateQRCode)
PostGenerate(header, url, name) ==
    LET g == authMiddleware(header, now, env)
        out == generateQRCode(g.user, url, name, qrs, nextQrId, now)
    IN /\ g.next => out.next <= MaxQrId + 1
       /\ Routed("generate", header, [url |-> url, name |-> name], g, out)

\* router.get('/history', authMiddleware, getQRHistory)
GetHistory(header) ==
    LET g == authMiddleware(header, now, env)
    IN \E out \in getQRHistory(g.user, qrs, nextQrId) :
        Routed("history", header, [none |-> TRUE], g, out)

\* router.delete('/:id', authMiddleware, deleteQRCode)
DeleteQr(header, id) ==
    LET g == authMiddleware(header, now, env)
        out == deleteQRCode(g.user, id, qrs, nextQrId)
    IN Routed("delete", header, [id |-> id], g, out)

\* The Authorization headers a client can send, given the tokens in
\* circulation: none, empty, the bare prefix, a token with and without the
\* prefix, the prefix twice, and junk.
Forged(tok) == [tok EXCEPT !.sig = "forged"]

HeadersFor(tokens) ==
    {NoHeader, HeaderOf(<<>>), HeaderOf(<<BearerPart>>),
     HeaderOf(<<JunkPart>>), HeaderOf(<<BearerPart, JunkPart>>)}
    \cup {HeaderOf(<<BearerPart, JwtPart(k)>>) : k \in tokens}
    \cup {HeaderOf(<<JwtPart(k)>>) : k \in tokens}
    \cup {HeaderOf(<<BearerPart, BearerPart, JwtPart(k)>>) : k \in tokens}

---------------------------------------------------------------------------
(* Exceptions inside the handlers: a store call that rejects (connectivity, *)
(* a refused statement) or a primitive that throws.                         *)

\* What such an exception carries: driver messages name the connection.
Faults ==
    {[message |-> "connect ECONNREFUSED postgres://quickqr:dbpass@db:5432/quickqr",
      stack |-> "Error: connect ECONNREFUSED at Pool.query"],
     [message |-> "secretOrPrivateKey must have a value",
      stack |-> "Error: secretOrPrivateKey must have a value at sign"]}

\* A catch block that passes the exception's message on to the client.
CaughtLeaky(message, err) ==
    [status |-> 500, body |-> [message |-> message, error |-> err.message]]

\* catch (err) { console.error(err); res.status(500).json({ message }) }
Caught(message, err) == [status |-> 500, body |-> [message |-> message]]

\* The response record of a request in which an exception was thrown.
Faulted(r, err) ==
    [f \in DOMAIN r \cup {"fault"} |-> IF f = "fault" THEN err ELSE r[f]]

\* register, its existence check rejecting.
RegisterStartFails(p, v, username, email, password, err) ==
    /\ FirstIdle(p)
    /\ ~MissingField(username, email, password)
    /\ LET c == Caught("Registration failed", err)
       IN resp' = Faulted(RegisterResp(username, email, password, c.status,
                                       c.body, <<"SELECT users">>), err)
    /\ UNCHANGED <<users, nextUserId, qrs, nextQrId, now, wallet, reg, env, server>>

\* register, an exception after its existence check: in hashPassword, in
\* the INSERT, or in generateToken, by when the row is stored.
RegisterFinishFails(p, point, err) ==
    /\ reg[p].pc = "hash"
    /\ LET r == reg[p]
           row == [id |-> UserId(nextUserId), username |-> r.username,
                   email |-> r.email, password |-> hashPassword(r.password),
                   created_at |-> now, updated_at |-> now]
           c == Caught("Registration failed", err)
           sql == IF point = "hash" THEN <<"SELECT users">>
                  ELSE <<"SELECT users", "INSERT users">>
       IN /\ resp' = Faulted(RegisterResp(r.username, r.email, r.password,
                                          c.status, c.body, sql), err)
          /\ IF point = "token" /\ ~UniqueViolation(users, r.username, r.email)
             THEN /\ users' = users \cup {row}
                  /\ nextUserId' = nextUserId + 1
             ELSE UNCHANGED <<users, nextUserId>>
    /\ reg' = [reg EXCEPT ![p] = IdleReg]
    /\ UNCHANGED <<qrs, nextQrId, now, wallet, env, server>>

\* login, an exception in its query, in comparePassword or in generateToken.
LoginFails(v, email, password, err) ==
    /\ LET c == Caught("Login failed", err)
       IN resp' = Faulted(LoginResp(v, email, password, c.status, c.body,
                                    <<"SELECT users">>), err)
    /\ UNCHANGED <<users, nextUserId, qrs, nextQrId, now, wallet, reg, env, server>>

\* A QR handler that got as far as its store statement (or, in generate, the
\* rendering before it), where an exception was thrown.
RoutedFails(op, header, in, g, out, message, err) ==
    /\ g.next
    /\ out.sql # <<>>
    /\ LET c == Caught(message, err)
       IN resp' = Faulted(RouteResp(op, header, in, now, c.status, c.body,
                                    TRUE, g.user, out.sql), err)
    /\ UNCHANGED <<users, nextUserId, qrs, nextQrId, now, wallet, reg, env, server>>

GenerateFails(header, url, name, err) ==
    LET g == authMiddleware(header, now, env)
        out == generateQRCode(g.user, url, name, qrs, nextQrId, now)
    IN RoutedFails("generate", header, [url |-> url, name |-> name], g, out,
                   "QR generation failed", err)

HistoryFails(header, err) ==
    LET g == authMiddleware(header, now, env)
    IN \E out \in getQRHistory(g.user, qrs, nextQrId) :
        RoutedFails("history", header, [none |-> TRUE], g, out,
                    "Failed to load QR history", err)

DeleteFails(header, id, err) ==
    LET g == authMiddleware(header, now, env)
        out == deleteQRCode(g.user, id, qrs, nextQrId)
    IN RoutedFails("delete", header, [id |-> id], g, out,
                   "Failed to delete QR", err)

---------------------------------------------------------------------------
(* The clock *)

Tick(d) ==
    /\ now + d \in Times(MaxTicks)
    /\ now' = now + d
    /\ UNCHANGED <<users, nextUserId, qrs, nextQrId, wallet, reg, env, server, resp>>

---------------------------------------------------------------------------
(* The guards on their own, as a router would mount them *)

\* A request through authenticateToken.
StrictAuth(header) ==
    /\ resp' = GuardResp("authenticateToken", header, now,
                         authenticateToken(header, now, env))
    /\ UNCHANGED <<users, nextUserId, qrs, nextQrId, now, wallet, reg, env, server>>

\* A request through optionalAuth.
OptionalAuth(header) ==
    /\ resp' = GuardResp("optionalAuth", header, now, optionalAuth(header, now))
    /\ UNCHANGED <<users, nextUserId, qrs, nextQrId, now, wallet, reg, env, server>>

---------------------------------------------------------------------------
(* Startup and the CORS policy: server.js, db.js *)

\* A connection test that logs its failure and returns.
testConnectionLogsOnly(ok) == [exit |-> FALSE, passed |-> ok]

\* testConnection: SELECT NOW(); when the query fails, process.exit(1).
testConnection(ok) ==
    IF ok
    THEN [exit |-> FALSE, passed |-> TRUE]
    ELSE [exit |-> TRUE, code |-> 1, passed |-> FALSE]

\* startServer: await testConnection(), then app.listen(PORT).
StartServer(ok) ==
    /\ server = Starting
    /\ LET t == testConnection(ok)
       IN server' = IF t.exit
                    THEN [phase |-> "exited", code |-> t.code]
                    ELSE [phase |-> "listening", db |-> t.passed]
    /\ UNCHANGED <<users, nextUserId, qrs, nextQrId, now, wallet, reg, env, resp>>

\* The socket takes requests once app.listen has been called.
Accepting == server.phase = "listening"

\* origin.startsWith("http://localhost"): an origin is the text of its
\* scheme and host followed by what comes after them.
StartsWithLocalhost(origin) == origin # <<>> /\ origin[1] = "http://localhost"

\* The origin callback of cors(): callback(null, true), or
\* callback(new Error("Not allowed by CORS")).
corsOrigin(origin) ==
    IF FalsyText(origin)
    THEN [allowed |-> TRUE]
    ELSE IF StartsWithLocalhost(origin)
    THEN [allowed |-> TRUE]
    ELSE [allowed |-> FALSE, error |-> "Not allowed by CORS"]

\* GET /api/health behind the CORS middleware: the handler's 200, or the
\* error the middleware passed on, which Express answers with 500.
GetHealth(origin) ==
    /\ Accepting
    /\ LET c == corsOrigin(origin)
       IN resp' = IF c.allowed
                  THEN [op |-> "health", origin |-> origin, allowed |-> TRUE,
                        status |-> 200,
                        body |-> [success |-> TRUE,
                                  message |-> "Backend is running",
                                  timestamp |-> now]]
                  ELSE [op |-> "health", origin |-> origin, allowed |-> FALSE,
                        status |-> 500, body |-> [error |-> c.error]]
    /\ UNCHANGED <<users, nextUserId, qrs, nextQrId, now, wallet, reg, env, server>>

---------------------------------------------------------------------------
(* The auth service on its own: concurrent registers and logins. *)

Init ==
    /\ users = {}
    /\ nextUserId = 1
    /\ qrs = {}
    /\ nextQrId = 1
    /\ now = 0
    /\ wallet = {}
    /\ reg = [p \in Procs |-> IdleReg]
    /\ env = "production"
    /\ server = Listening
    /\ resp = NoResp

Next ==
    \/ \E p \in Procs, v \in Variants, username \in UsernameInputs,
          email \in EmailInputs, password \in PasswordInputs :
            RegisterStart(p, v, username, email, password)
    \/ \E p \in Procs : RegisterFinish(p)
    \/ \E v \in Variants, email \in EmailInputs, password \in LoginPasswordInputs :
            Login(v, email, password)

Spec == Init /\ [][Next]_vars

---------------------------------------------------------------------------
(* The guard in front of the QR routes: one user, whose tokens age.  The    *)
(* requests carry no url, so that the handlers store nothing; what the      *)
(* handlers do with the records is the subject of SpecQR.                   *)

\* The tokens a client can put in a header: those it holds, and copies of
\* them signed with another key.
Circulating == wallet \cup {Forged(k) : k \in wallet}

InitGuard ==
    /\ users = {}
    /\ nextUserId = 1
    /\ qrs = {}
    /\ nextQrId = 1
    /\ now = 0
    /\ wallet = {}
    /\ reg = [p \in Procs |-> IdleReg]
    /\ env \in {"development", "production"}
    /\ server = Listening
    /\ resp = NoResp

NextGuard ==
    \/ \E p \in Procs, v \in Variants :
            RegisterStart(p, v, "alice", "alice@x.com", "secret1")
    \/ \E p \in Procs : RegisterFinish(p)
    \/ \E v \in Variants : Login(v, "alice@x.com", "secret1")
    \/ \E d \in {1, SevenDays} : Tick(d)
    \/ \E h \in HeadersFor(Circulating) :
            PostGenerate(h, UndefinedText, UndefinedText)
    \/ \E h \in HeadersFor(Circulating) : GetHistory(h)
    \/ \E h \in HeadersFor(Circulating) : DeleteQr(h, QrId(1))
    \/ \E h \in HeadersFor(Circulating) : StrictAuth(h)
    \/ \E h \in HeadersFor(Circulating) : OptionalAuth(h)

SpecGuard == InitGuard /\ [][NextGuard]_vars

---------------------------------------------------------------------------
(* The QR service: two users and their records. *)

Accounts ==
    {[username |-> "alice", email |-> "alice@x.com", password |-> "secret1"],
     [username |-> "bob", email |-> "bob@x.com", password |-> "secret1"]}

QrUrls == {UndefinedText, <<"https://example.com">>}
QrNames == {UndefinedText}
QrIds == {QrId(i) : i \in 1..(MaxQrId + 1)}

\* Headers of the QR clients: none, or Bearer with a token in circulation.
QrHeaders ==
    {NoHeader} \cup {HeaderOf(<<BearerPart, JwtPart(k)>>) : k \in Circulating}

NextQR ==
    \/ \E p \in Procs, v \in Variants, a \in Accounts :
            RegisterStart(p, v, a.username, a.email, a.password)
    \/ \E p \in Procs : RegisterFinish(p)
    \/ \E h \in QrHeaders, url \in QrUrls, name \in QrNames :
            PostGenerate(h, url, name)
    \/ \E h \in QrHeaders : GetHistory(h)
    \/ \E h \in QrHeaders, id \in QrIds : DeleteQr(h, id)

SpecQR == Init /\ [][NextQR]_vars

---------------------------------------------------------------------------
(* The subject of a request: one user, whose token comes in the payload     *)
(* shapes the issuer has used over its versions.                            *)

\* A user id of an older issuer's numbering.
LegacyId == "u0"

\* The (userId, id) pairs a validly signed payload may carry for the holder
\* of a token whose id is i: id alone (the current issuer), userId alone,
\* both, an empty userId beside the id, and neither.
SubjectShapes(i) ==
    {<<UNDEFINED, i>>, <<i, UNDEFINED>>, <<i, LegacyId>>, <<LegacyId, i>>,
     <<"", i>>, <<UNDEFINED, UNDEFINED>>}

Reissued(k, shape) == [k EXCEPT !.userId = shape[1], !.id = shape[2]]

SubjectHeaders ==
    {NoHeader}
    \cup {HeaderOf(<<BearerPart, JwtPart(Forged(k))>>) : k \in wallet}
    \cup {HeaderOf(<<BearerPart, JwtPart(Reissued(k, shape))>>) :
            k \in wallet, shape \in SubjectShapes("u1")}

SubjectUrls == {UndefinedText, <<>>, <<"https://example.com">>}

NextSubject ==
    \/ \E p \in Procs, v \in Variants :
            RegisterStart(p, v, "alice", "alice@x.com", "secret1")
    \/ \E p \in Procs : RegisterFinish(p)
    \/ \E h \in SubjectHeaders, url \in SubjectUrls :
            PostGenerate(h, url, UndefinedText)
    \/ \E h \in SubjectHeaders : GetHistory(h)
    \/ \E h \in SubjectHeaders, id \in QrIds : DeleteQr(h, id)

SpecSubject == Init /\ [][NextSubject]_vars

---------------------------------------------------------------------------
(* The texts of a generate request: one user, urls and names with and      *)
(* without surrounding and inner blanks.                                    *)

TextUrls ==
    {<<" ">>, <<"https://example.com">>,
     <<" ", "https://example.com", " ", " ">>}

TextNames ==
    {UndefinedText, <<>>, <<" ", " ">>, <<" ", "My", " ", "QR", " ">>}

\* Headers of a client that sends the token it holds.
HeldHeaders == {HeaderOf(<<BearerPart, JwtPart(k)>>) : k \in wallet}

NextText ==
    \/ \E p \in Procs, v \in Variants :
            RegisterStart(p, v, "alice", "alice@x.com", "secret1")
    \/ \E p \in Procs : RegisterFinish(p)
    \/ \E h \in HeldHeaders, url \in TextUrls, name \in TextNames :
            PostGenerate(h, url, name)

SpecText == Init /\ [][NextText]_vars

---------------------------------------------------------------------------
(* The history of two owners whose records are created at different       *)
(* times: a user, and the holder of a token of the older numbering.         *)

HistoryUrl == <<"https://example.com">>

HistoryHeaders ==
    UNION {{HeaderOf(<<BearerPart, JwtPart(Reissued(k, shape))>>) :
                shape \in {<<UNDEFINED, k.id>>, <<LegacyId, k.id>>}} :
           k \in wallet}

NextHistory ==
    \/ \E p \in Procs, v \in Variants :
            RegisterStart(p, v, "alice", "alice@x.com", "secret1")
    \/ \E p \in Procs : RegisterFinish(p)
    \/ Tick(1)
    \/ \E h \in HistoryHeaders : PostGenerate(h, HistoryUrl, UndefinedText)
    \/ \E h \in HistoryHeaders : GetHistory(h)

SpecHistory == Init /\ [][NextHistory]_vars

---------------------------------------------------------------------------
(* One client session from registration to deletion.  Each request is sent *)
(* once the answer to the one before it has arrived; another user has       *)
(* registered beforehand, and seconds may pass between the requests.        *)

ScenarioUrl == <<"https://example.com">>

\* The header a client sends for the token it holds for an email.
HeldBy(email) ==
    {HeaderOf(<<BearerPart, JwtPart(k)>>) : k \in {t \in wallet : t.email = email}}

ScenarioRegisterOther ==
    /\ users = {}
    /\ resp = NoResp
    /\ \A q \in Procs : reg[q] = IdleReg
    /\ \E p \in Procs, v \in Variants :
            RegisterStart(p, v, "bob", "bob@x.com", "secret1")

ScenarioRegister ==
    /\ resp.op = "register"
    /\ resp.in.username = "bob"
    /\ \E p \in Procs, v \in Variants :
            RegisterStart(p, v, "alice", "alice@x.com", "secret1")

ScenarioLogin ==
    /\ resp.op = "register"
    /\ resp.in.username = "alice"
    /\ \E v \in Variants : Login(v, "alice@x.com", "secret1")

ScenarioGenerate ==
    /\ resp.op = "login"
    /\ \E h \in HeldBy("alice@x.com") :
            PostGenerate(h, ScenarioUrl, UndefinedText)

ScenarioHistory ==
    /\ resp.op = "generate"
    /\ GetHistory(resp.header)

ScenarioDeleteByOther ==
    /\ resp.op = "history"
    /\ \E h \in HeldBy("bob@x.com"), r \in qrs : DeleteQr(h, r.id)

ScenarioDeleteByOwner ==
    /\ resp.op = "delete"
    /\ resp.header \in HeldBy("bob@x.com")
    /\ \E h \in HeldBy("alice@x.com") : DeleteQr(h, resp.in.id)

NextScenario ==
    \/ ScenarioRegisterOther
    \/ \E p \in Procs : RegisterFinish(p)
    \/ ScenarioRegister
    \/ ScenarioLogin
    \/ ScenarioGenerate
    \/ ScenarioHistory
    \/ ScenarioDeleteByOther
    \/ ScenarioDeleteByOwner
    \/ Tick(1)

SpecScenario == InitGuard /\ [][NextScenario]_vars

---------------------------------------------------------------------------
(* The service with a store and primitives that may fail: one user.         *)

FaultPoints == {"hash", "insert", "token"}

NextFault ==
    \/ \E p \in Procs, v \in Variants :
            RegisterStart(p, v, "alice", "alice@x.com", "secret1")
    \/ \E p \in Procs : RegisterFinish(p)
    \/ \E v \in Variants, password \in LoginPasswordInputs :
            Login(v, "alice@x.com", password)
    \/ \E h \in HeldHeaders : PostGenerate(h, ScenarioUrl, UndefinedText)
    \/ \E h \in HeldHeaders : GetHistory(h)
    \/ \E h \in HeldHeaders : DeleteQr(h, QrId(1))
    \/ \E p \in Procs, v \in Variants, err \in Faults :
            RegisterStartFails(p, v, "alice", "alice@x.com", "secret1", err)
    \/ \E p \in Procs, point \in FaultPoints, err \in Faults :
            RegisterFinishFails(p, point, err)
    \/ \E v \in Variants, err \in Faults :
            LoginFails(v, "alice@x.com", "secret1", err)
    \/ \E h \in HeldHeaders, err \in Faults :
            GenerateFails(h, ScenarioUrl, UndefinedText, err)
    \/ \E h \in HeldHeaders, err \in Faults : HistoryFails(h, err)
    \/ \E h \in HeldHeaders, err \in Faults : DeleteFails(h, QrId(1), err)

SpecFault == Init /\ [][NextFault]_vars

---------------------------------------------------------------------------
(* Every way a request can end: the failing service, the strict guard on    *)
(* its own and in front of a route, with headers it admits and rejects.     *)

NextOutcome ==
    \/ NextFault
    \/ \E h \in HeadersFor(Circulating) : StrictAuth(h)
    \/ \E h \in HeadersFor(Circulating) : GetHistory(h)

SpecOutcome == Init /\ [][NextOutcome]_vars

---------------------------------------------------------------------------
(* Racing registers: complete requests for two usernames and two emails,   *)
(* in every pairing and interleaving.                                      *)

NextRace ==
    \/ \E p \in Procs, v \in Variants, username \in Usernames, email \in Emails :
            RegisterStart(p, v, username, email, "secret1")
    \/ \E p \in Procs : RegisterFinish(p)

SpecRace == Init /\ [][NextRace]_vars

---------------------------------------------------------------------------
(* Letter case: register requests whose usernames and emails differ only    *)
(* in the case of their letters.                                            *)

CaseUsernames == {"alice", "Alice"}
CaseEmails == {"alice@x.com", "Alice@X.com"}

NextCase ==
    \/ \E p \in Procs, v \in Variants, username \in CaseUsernames,
          email \in CaseEmails :
            RegisterStart(p, v, username, email, "secret1")
    \/ \E p \in Procs : RegisterFinish(p)
    \/ \E v \in Variants, email \in CaseEmails : Login(v, email, "secret1")

SpecCase == Init /\ [][NextCase]_vars

---------------------------------------------------------------------------
(* The process from its start: the connection test, then requests of       *)
(* browsers (with an Origin) to the health route and of other clients      *)
(* (without one) to the auth routes.                                       *)

\* Origin headers: none, localhost with and without a port, a host that
\* begins with "localhost", and other hosts.
Origins ==
    {UndefinedText, <<"http://localhost">>, <<"http://localhost", ":5173">>,
     <<"http://localhost", ".evil.com">>, <<"https://evil.com">>,
     <<"http://127.0.0.1", ":5173">>}

InitServer ==
    /\ users = {}
    /\ nextUserId = 1
    /\ qrs = {}
    /\ nextQrId = 1
    /\ now = 0
    /\ wallet = {}
    /\ reg = [p \in Procs |-> IdleReg]
    /\ env = "production"
    /\ server = Starting
    /\ resp = NoResp

NextServer ==
    \/ \E ok \in BOOLEAN : StartServer(ok)
    \/ \E origin \in Origins : GetHealth(origin)
    \/ \E d \in {1, SevenDays} : Tick(d)
    \/ /\ Accepting
       /\ \E p \in Procs, v \in Variants :
            RegisterStart(p, v, "alice", "alice@x.com", "secret1")
    \/ /\ Accepting
       /\ \E p \in Procs : RegisterFinish(p)
    \/ /\ Accepting
       /\ \E v \in Variants : Login(v, "alice@x.com", "secret1")

SpecServer == InitServer /\ [][NextServer]_vars

---------------------------------------------------------------------------
(* Properties of the auth service *)

\* C1: in every reachable state, whatever the interleaving of register
\* requests with each other and with logins, no two stored users share an
\* email and no two share a username.
UsersUnique ==
    \A u1 \in users, u2 \in users :
        u1 # u2 => u1.email # u2.email /\ u1.username # u2.username

\* Two registers raced for the same username or email: the later INSERT was
\* refused by the store and one row stands.
UsersUniqueWitness ==
    /\ resp.op = "register"
    /\ resp.status = 500
    /\ \E u \in users : u.email = resp.in.email \/ u.username = resp.in.username

\* Some stored row other than the requested pair collides with it on one
\* column only.
TakenByOther(table, username, email) ==
    \E u \in table : \/ u.email = email /\ u.username # username
                     \/ u.username = username /\ u.email # email

\* C5: a register whose email is an existing user's (with another username),
\* or whose username is an existing user's (with another email), answers 409
\* with the one message "User already exists" and inserts no row.
RegisterConflict ==
    [][\A username \in Usernames, email \in Emails :
        TakenByOther(users, username, email)
        => \A p \in Procs, v \in Variants, password \in Passwords :
            RegisterStart(p, v, username, email, password)
            => /\ resp'.op = "register"
               /\ resp'.status = 409
               /\ resp'.body = [message |-> "User already exists"]
               /\ users' = users]_vars

RegisterConflictWitness ==
    /\ resp.op = "register"
    /\ resp.status = 409
    /\ TakenByOther(users, resp.in.username, resp.in.email)

\* C6: a register with username, email or password absent or empty answers
\* 400 without having issued any statement to the store, and leaves the users
\* table as it was.
RegisterValidation ==
    [][(resp'.op = "register"
        /\ \E f \in {"username", "email", "password"} :
              resp'.in[f] \in {UNDEFINED, ""})
       => /\ resp'.status = 400
          /\ resp'.sql = <<>>
          /\ users' = users]_vars

RegisterValidationWitness ==
    /\ resp.op = "register"
    /\ resp.status = 400
    /\ resp.in.password = ""
    /\ ~Falsy(resp.in.username)
    /\ ~Falsy(resp.in.email)

\* The string-valued columns of a user object.
TextColumns(user) == DOMAIN user \ {"created_at", "updated_at"}

\* C7: the user object of a successful register or login has no password
\* field, and none of its fields holds the request's password, its hash, or
\* the stored password column of any user.
NoPasswordInResponse ==
    (resp.op \in {"register", "login"} /\ resp.status \in {200, 201})
    => /\ "password" \notin DOMAIN resp.body.user
       /\ \A f \in TextColumns(resp.body.user) :
            resp.body.user[f] \notin
                {resp.in.password, hashPassword(resp.in.password)}
                \cup {u.password : u \in users}

NoPasswordInResponseWitness ==
    /\ resp.op = "login"
    /\ resp.variant = "pg"
    /\ resp.status = 200
    /\ \E u \in users : u.id = resp.body.user.id /\ u.password # resp.in.password

\* A password that was supplied and is not the stored user's.
WrongPassword(table, email, password) ==
    /\ password # UNDEFINED
    /\ \E u \in table : u.email = email /\ ~comparePassword(password, u.password)

\* C8: in every reachable state, a login with a registered email and a wrong
\* password and a login with an unregistered email and any password are
\* answered alike: both 401, with equal bodies.
LoginIndistinguishable ==
    \A v1 \in Variants, v2 \in Variants,
       e1 \in {u.email : u \in users},
       e2 \in (Emails \cup {""}) \ {u.email : u \in users},
       p1 \in LoginPasswordInputs, p2 \in LoginPasswordInputs :
        WrongPassword(users, e1, p1)
        => \A o1 \in login(v1, users, e1, p1, now),
              o2 \in login(v2, users, e2, p2, now) :
                /\ o1.status = 401
                /\ o2.status = 401
                /\ o1.body = o2.body

LoginIndistinguishableWitness ==
    /\ resp.op = "login"
    /\ resp.status = 401
    /\ WrongPassword(users, resp.in.email, resp.in.password)
    /\ \E e \in Emails : e \notin {u.email : u \in users}

\* C9 as claimed: a login whose email or password is missing answers 400.
LoginMissingFieldIs400 ==
    (resp.op = "login"
     /\ (resp.in.email = UNDEFINED \/ resp.in.password = UNDEFINED))
    => resp.status = 400

\* C19 as claimed: every response with an error status, from any endpoint or
\* from the guard, carries success = false and a message, and carries an
\* error detail only when the service is not configured for production.
ErrorShape ==
    (resp.op # "none" /\ resp.status \in {400, 401, 404, 409, 500})
    => /\ "success" \in DOMAIN resp.body
       /\ resp.body.success = FALSE
       /\ "message" \in DOMAIN resp.body
       /\ "error" \in DOMAIN resp.body => env # "production"

---------------------------------------------------------------------------
(* Properties of the guard *)

IsRoute(r) == r.op \in {"generate", "history", "delete"}

\* The token of a header value: what follows a leading "Bearer ", or the
\* whole value when there is no such prefix.
Stripped(value) ==
    IF value # <<>> /\ value[1].kind = "Bearer " THEN Tail(value) ELSE value

\* C3: on each of the three QR routes the handler runs, with the decoded
\* payload as req.user, exactly when the header is present, the token left
\* after stripping the prefix is non-empty and it verifies; otherwise the
\* handler does not run and the answer is a 401 saying the header is missing
\* (no header), the token is missing (nothing after the prefix) or the token
\* is invalid or expired (verification failed).
StrictGuardContract ==
    IsRoute(resp) =>
        LET h == resp.header
            token == Stripped(h.value)
            ok == h.present /\ token # <<>> /\ verifyTokenOk(token, resp.at)
        IN /\ resp.handler <=> ok
           /\ ok => resp.user = Payload(token[1].jwt)
           /\ ~ok =>
                /\ resp.status = 401
                /\ resp.sql = <<>>
                /\ ~h.present
                     => resp.body.message = "Authorization header is missing"
                /\ (h.present /\ h.value # <<>> /\ token = <<>>)
                     => resp.body.message = "Token is missing"
                /\ (h.present /\ token # <<>>)
                     => resp.body.message = "Invalid or expired token"

StrictGuardContractWitness ==
    /\ resp.op = "history"
    /\ resp.header = HeaderOf(<<BearerPart>>)
    /\ ~resp.handler
    /\ resp.status = 401
    /\ resp.body.message = "Token is missing"

\* The validly signed token a header carries, with or without the prefix.
Carried(header) ==
    {part.jwt : part \in {x \in {header.value[i] : i \in DOMAIN header.value} :
                            /\ x.kind = "jwt"
                            /\ x.jwt.sig = "valid"
                            /\ header.value \in {<<BearerPart, x>>, <<x>>}}}

\* C4: every token register or login has issued expires 7 days after its
\* issue; presented to a guarded route one second after its issue it is
\* accepted, presented 7 days and one second after it is answered 401.
TokenWindow ==
    /\ \A k \in wallet : k.exp = k.iat + SevenDays
    /\ IsRoute(resp) =>
        \A k \in Carried(resp.header) :
            /\ resp.at = k.iat + 1 => resp.handler
            /\ resp.at = k.iat + SevenDays + 1
                 => ~resp.handler /\ resp.status = 401

TokenWindowWitness ==
    /\ IsRoute(resp)
    /\ \E k \in wallet :
        /\ resp.header = HeaderOf(<<BearerPart, JwtPart(k)>>)
        /\ resp.at = k.iat + SevenDays + 1
        /\ resp.status = 401

\* C15: optionalAuth ends no request: whatever the header (absent, empty,
\* without the prefix, junk, forged, expired or valid), it sends no response
\* and calls next(); req.user is null when there is no header or the token
\* does not verify, and is otherwise null or the payload of the header's
\* token.
OptionalNeverTerminates ==
    resp.op = "optionalAuth"
    => LET h == resp.header
           token == Stripped(h.value)
       IN /\ resp.next
          /\ ~resp.sent
          /\ (~h.present \/ token = <<>> \/ ~verifyTokenOk(token, resp.at))
               => resp.user = NullUser
          /\ resp.user # NullUser => resp.user = Payload(token[1].jwt)

OptionalNeverTerminatesWitness ==
    /\ resp.op = "optionalAuth"
    /\ \E k \in wallet :
        /\ resp.header = HeaderOf(<<BearerPart, JwtPart(k)>>)
        /\ resp.at >= k.exp
    /\ resp.next
    /\ resp.user = NullUser

\* C16 as claimed: for every header for which authenticateToken attaches an
\* identity and continues, optionalAuth attaches the same identity.
OptionalSameExtraction ==
    resp.op = "optionalAuth"
    => LET strict == authenticateToken(resp.header, resp.at, env)
       IN strict.next => resp.user = strict.user

\* C17: authenticateToken treats a header that is a token and nothing else
\* as it treats "Bearer " followed by that token: both are accepted with the
\* token's payload as req.user when the token verifies, and both are
\* answered by the same 401 when it does not.
BareTokenAccepted ==
    resp.op = "authenticateToken"
    => \A k \in Circulating :
        resp.header = HeaderOf(<<JwtPart(k)>>)
        => LET bearer == GuardResp("authenticateToken", resp.header, resp.at,
                             authenticateToken(
                                 HeaderOf(<<BearerPart, JwtPart(k)>>), resp.at, env))
           IN /\ resp = bearer
              /\ (k.sig = "valid" /\ resp.at < k.exp)
                   => resp.next /\ ~resp.sent /\ resp.user = Payload(k)

BareTokenAcceptedWitness ==
    /\ resp.op = "authenticateToken"
    /\ \E k \in wallet :
        /\ resp.header = HeaderOf(<<JwtPart(k)>>)
        /\ resp.next
        /\ resp.user = Payload(k)

---------------------------------------------------------------------------
(* Properties of the QR service *)

\* C2: a history answers with records of the requesting identity only; a
\* record leaves the table only by a delete of its owner; a record enters the
\* table only by a generate, owned by that request's identity, and the rows
\* already stored stay as they are.
OwnerOnly ==
    [][/\ (resp'.op = "history" /\ resp'.status = 200)
            => \A i \in DOMAIN resp'.body :
                 resp'.body[i].user_id = SubjectId(resp'.user)
       /\ \A r \in qrs \ qrs' :
            /\ resp'.op = "delete"
            /\ resp'.handler
            /\ r.user_id = SubjectId(resp'.user)
       /\ \A r \in qrs' \ qrs :
            /\ resp'.op = "generate"
            /\ resp'.handler
            /\ r.user_id = SubjectId(resp'.user)
            /\ qrs' = qrs \cup {r}]_vars

OwnerOnlyWitness ==
    /\ resp.op = "history"
    /\ resp.status = 200
    /\ Len(resp.body) > 0
    /\ \E r \in qrs : r.user_id # SubjectId(resp.user)

\* The identities of the tokens clients hold.
Identities == {Payload(k) : k \in wallet}

\* C10: for an authenticated identity, deleting a record of another owner and
\* deleting an id that names no record give the same response, 404 "QR not
\* found or not authorized", and both leave the table as it was.
DeleteIndistinguishable ==
    \A user \in Identities :
        \A foreign \in {r.id : r \in {x \in qrs : x.user_id # SubjectId(user)}},
           absent \in QrIds \ {r.id : r \in qrs} :
            LET o1 == deleteQRCode(user, foreign, qrs, nextQrId)
                o2 == deleteQRCode(user, absent, qrs, nextQrId)
            IN /\ o1.status = 404
               /\ o2.status = 404
               /\ o1.body = o2.body
               /\ o1.body = [message |-> "QR not found or not authorized"]
               /\ o1.table = qrs
               /\ o2.table = qrs

DeleteIndistinguishableWitness ==
    /\ resp.op = "delete"
    /\ resp.handler
    /\ resp.status = 404
    /\ \E r \in qrs : r.id = resp.in.id /\ r.user_id # SubjectId(resp.user)
    /\ QrIds \ {r.id : r \in qrs} # {}

---------------------------------------------------------------------------
(* Properties of generate *)

\* C11 as claimed: a generate whose url is empty or missing answers 400
\* whatever the request's identity: no token, an invalid token, or a payload
\* with no usable subject id.
GenerateEmptyUrlAlways400 ==
    (resp.op = "generate" /\ resp.in.url \in {UndefinedText, <<>>})
    => resp.status = 400

\* The payload carries a subject id the handlers can use.
UsableSubject(user) ==
    \E f \in {"userId", "id"} : user[f] \notin {UNDEFINED, ""}

\* C11, amended: a generate whose url is empty or missing stores no record
\* in any case; it answers 400 "URL is required" when the guard admitted the
\* request and the payload carries a usable subject id, and 401 otherwise:
\* the guard's 401 without a valid token, the handler's 401 "User not
\* authenticated" when the payload has no usable subject id.
GenerateEmptyUrl ==
    [][(resp'.op = "generate" /\ resp'.in.url \in {UndefinedText, <<>>})
       => /\ qrs' = qrs
          /\ nextQrId' = nextQrId
          /\ resp'.sql = <<>>
          /\ IF resp'.handler /\ UsableSubject(resp'.user)
             THEN /\ resp'.status = 400
                  /\ resp'.body = [message |-> "URL is required"]
             ELSE /\ resp'.status = 401
                  /\ resp'.handler
                       => resp'.body = [message |-> "User not authenticated"]]_vars

GenerateEmptyUrlWitness ==
    /\ resp.op = "generate"
    /\ resp.in.url = <<>>
    /\ resp.handler
    /\ UsableSubject(resp.user)
    /\ resp.status = 400

\* The subject id of a payload: its userId when that is usable, else its id.
Resolved(user) ==
    IF user.userId \notin {UNDEFINED, ""} THEN user.userId ELSE user.id

\* A text of blanks only (the empty text included).
AllBlank(x) == \A i \in DOMAIN x : x[i] = " "

\* y is x with the blanks around it removed.
IsTrimOf(y, x) ==
    /\ y # <<>> => y[1] # " " /\ y[Len(y)] # " "
    /\ \E i, j \in 0..Len(x) :
        /\ i + Len(y) + j = Len(x)
        /\ AllBlank(SubSeq(x, 1, i))
        /\ SubSeq(x, i + 1, i + Len(y)) = y
        /\ AllBlank(SubSeq(x, Len(x) - j + 1, Len(x)))

\* C12: a generate answered 201 has inserted exactly one record, under a
\* fresh id; its owner is the resolved subject id, its name the trimmed
\* request name, or "Untitled QR" when the name is absent, empty or blanks
\* only, its url the request url without the blanks around it; the response
\* body is that record, image included.
GeneratePersists ==
    [][(resp'.op = "generate" /\ resp'.status = 201)
       => \E r \in qrs' :
            /\ qrs' = qrs \cup {r}
            /\ \A old \in qrs : old.id # r.id
            /\ r.user_id = Resolved(resp'.user)
            /\ IF resp'.in.name = UndefinedText \/ AllBlank(resp'.in.name)
               THEN r.name = <<"Untitled QR">>
               ELSE IsTrimOf(r.name, resp'.in.name)
            /\ IsTrimOf(r.url, resp'.in.url)
            /\ resp'.body = r
            /\ Len(resp'.body.image_url) > 1
            /\ Head(resp'.body.image_url) = "data:image/png;base64,"]_vars

GeneratePersistsWitness ==
    /\ resp.op = "generate"
    /\ resp.status = 201
    /\ resp.in.name = <<" ", "My", " ", "QR", " ">>
    /\ resp.body.name = <<"My", " ", "QR">>
    /\ resp.in.url = <<" ", "https://example.com", " ", " ">>
    /\ resp.body.url = <<"https://example.com">>
    /\ Cardinality(qrs) = 2

\* C18: generate, history and delete act for the payload's userId when it is
\* usable and for its id otherwise: the record a generate inserts is owned
\* by it, a history lists its records, a delete removes only a record of
\* its own.  With neither field usable each of the three answers 401 "User
\* not authenticated", issues no statement and leaves the table as it was.
SubjectResolution ==
    [][(IsRoute(resp') /\ resp'.handler)
       => IF UsableSubject(resp'.user)
          THEN LET subject == Resolved(resp'.user)
               IN /\ resp'.status # 401
                  /\ (resp'.op = "generate" /\ resp'.status = 201)
                       => /\ resp'.body.user_id = subject
                          /\ qrs' = qrs \cup {resp'.body}
                  /\ resp'.op = "history"
                       => /\ resp'.status = 200
                          /\ {resp'.body[i] : i \in DOMAIN resp'.body}
                               = {r \in qrs : r.user_id = subject}
                  /\ resp'.op = "delete"
                       => /\ qrs' = {r \in qrs : ~(r.id = resp'.in.id
                                                   /\ r.user_id = subject)}
                          /\ resp'.status = IF qrs' = qrs THEN 404 ELSE 200
          ELSE /\ resp'.status = 401
               /\ resp'.body = [message |-> "User not authenticated"]
               /\ resp'.sql = <<>>
               /\ qrs' = qrs
               /\ nextQrId' = nextQrId]_vars

SubjectResolutionWitness ==
    /\ resp.op = "delete"
    /\ resp.handler
    /\ resp.status = 200
    /\ resp.user.userId = LegacyId
    /\ resp.user.id = "u1"
    /\ \E r \in qrs : r.user_id = "u1"

---------------------------------------------------------------------------
(* Properties of history *)

\* C13: a history of an identity with a usable subject id answers 200 with
\* a list that holds each stored record of that owner once and no other
\* record, a record created later before one created earlier; for an owner
\* with no records the answer is 200 with the empty list.
HistoryOfOwner ==
    (resp.op = "history" /\ resp.handler /\ UsableSubject(resp.user))
    => LET own == {r \in qrs : r.user_id = Resolved(resp.user)}
       IN /\ resp.status = 200
          /\ Len(resp.body) = Cardinality(own)
          /\ {resp.body[i] : i \in DOMAIN resp.body} = own
          /\ \A i, j \in DOMAIN resp.body :
                i < j => resp.body[i].created_at >= resp.body[j].created_at
          /\ own = {} => resp.body = <<>>

HistoryOfOwnerWitness ==
    /\ resp.op = "history"
    /\ resp.status = 200
    /\ Len(resp.body) = 2
    /\ resp.body[1].created_at > resp.body[2].created_at
    /\ resp.body[1].id = QrId(2)

---------------------------------------------------------------------------
(* The session from registration to deletion *)

\* The stored row of alice.
Alice == {u \in users : u.username = "alice"}

\* C14: in the session register alice, login alice, generate, history,
\* delete by another user, delete by alice, each answer is the expected one:
\* 201 with a token; 200 with a token whose subject id is the registered
\* user's id; 201 with a record owned by alice; 200 with exactly that record;
\* 404 with the record still stored; 200 {success: true} with the record gone.
Scenario ==
    /\ (resp.op = "register" /\ resp.in.username = "alice")
         => /\ resp.status = 201
            /\ "token" \in DOMAIN resp.body
            /\ \E u \in Alice : resp.body.user.id = u.id
    /\ resp.op = "login"
         => /\ resp.status = 200
            /\ "token" \in DOMAIN resp.body
            /\ \E u \in Alice : Resolved(resp.body.token) = u.id
    /\ resp.op = "generate"
         => /\ resp.status = 201
            /\ \E u \in Alice : resp.body.user_id = u.id
            /\ resp.body.url = <<"https://example.com">>
            /\ qrs = {resp.body}
    /\ resp.op = "history"
         => /\ resp.status = 200
            /\ Len(resp.body) = 1
            /\ qrs = {resp.body[1]}
            /\ \E u \in Alice : resp.body[1].user_id = u.id
    /\ (resp.op = "delete" /\ resp.header \in HeldBy("bob@x.com"))
         => /\ resp.status = 404
            /\ \E r \in qrs : r.id = resp.in.id /\ \E u \in Alice : r.user_id = u.id
    /\ (resp.op = "delete" /\ resp.header \in HeldBy("alice@x.com"))
         => /\ resp.status = 200
            /\ resp.body = [success |-> TRUE, id |-> resp.in.id]
            /\ qrs = {}

ScenarioWitness ==
    /\ resp.op = "delete"
    /\ resp.header \in HeldBy("alice@x.com")
    /\ resp.status = 200
    /\ resp.in.id = QrId(1)
    /\ nextQrId = 2
    /\ qrs = {}
    /\ Cardinality(users) = 2

---------------------------------------------------------------------------
(* Exceptions *)

\* The message each handler's catch block sends.
GenericMessage ==
    [register |-> "Registration failed", login |-> "Login failed",
     generate |-> "QR generation failed", history |-> "Failed to load QR history",
     delete |-> "Failed to delete QR"]

---------------------------------------------------------------------------
(* Letter case *)

\* String.prototype.toLowerCase on the names and addresses of the model.
ToLowerCase(s) ==
    CASE s = "Alice" -> "alice"
      [] s = "Alice@X.com" -> "alice@x.com"
      [] OTHER -> s

\* C21: usernames and emails are case-normalized: every stored username and
\* email is the lower-cased input, so no two stored users have usernames or
\* emails that differ only in letter case, and a register whose username or
\* email differs from a stored user's only in letter case is answered 409.
CaseNormalized ==
    /\ \A u \in users :
         /\ u.username = ToLowerCase(u.username)
         /\ u.email = ToLowerCase(u.email)
    /\ \A u1 \in users, u2 \in users :
         (\/ ToLowerCase(u1.email) = ToLowerCase(u2.email)
          \/ ToLowerCase(u1.username) = ToLowerCase(u2.username)) => u1 = u2
    /\ (/\ resp.op = "register"
        /\ resp.status = 201
        /\ "user" \in DOMAIN resp.body)
         => \A u \in users :
              (\/ ToLowerCase(u.email) = ToLowerCase(resp.in.email)
               \/ ToLowerCase(u.username) = ToLowerCase(resp.in.username))
                => u.id = resp.body.user.id

---------------------------------------------------------------------------
(* Writers of the tables *)

\* C22: rows are never modified in place and each table has one set of
\* writers: the users table changes only by a successful register (201),
\* which inserts one row; the qr_codes table changes only by a successful
\* generate (201), which inserts one row, or a successful delete (200), which
\* removes one row.  Login, the guard, history and every failing request
\* leave both tables as they were.
SingleWriters ==
    [][/\ users' # users
          => /\ resp'.op = "register"
             /\ resp'.status = 201
             /\ \E row \in users' \ users : users' = users \cup {row}
       /\ qrs' # qrs
          => \/ /\ resp'.op = "generate"
                /\ resp'.status = 201
                /\ \E row \in qrs' \ qrs : qrs' = qrs \cup {row}
             \/ /\ resp'.op = "delete"
                /\ resp'.status = 200
                /\ \E row \in qrs \ qrs' : qrs' = qrs \ {row}]_vars

\* C24: a register request that is not answered 201 leaves the users table
\* unchanged: when register answers 400, 409 or 500, a failure of password
\* hashing or of token issuance included, the request has added no row.
FailedRegisterStoresNothing ==
    [][(resp'.op = "register" /\ resp'.status # 201) => users' = users]_vars

---------------------------------------------------------------------------
(* Racing registers *)

\* C23: of two register requests with the same email or the same username
\* that both ran their existence check before either inserted, the first to
\* insert is answered 201 and adds its row; the other adds no row and is
\* answered 500 "Registration failed", its INSERT refused by the store's
\* uniqueness constraint.  A register whose existence check runs after the
\* winner's insert is answered 409 and adds no row.
RegisterRace ==
    [][/\ \A p \in Procs :
            (reg[p].pc = "hash" /\ reg'[p].pc = "idle")
              => LET r == reg[p]
                 IN IF \E u \in users :
                          u.email = r.email \/ u.username = r.username
                    THEN /\ users' = users
                         /\ resp'.op = "register"
                         /\ resp'.in.email = r.email
                         /\ resp'.in.username = r.username
                         /\ resp'.status = 500
                         /\ resp'.body = [message |-> "Registration failed"]
                         /\ resp'.sql = <<"SELECT users", "INSERT users">>
                    ELSE /\ resp'.op = "register"
                         /\ resp'.status = 201
                         /\ \E row \in users' \ users :
                              /\ users' = users \cup {row}
                              /\ row.email = r.email
                              /\ row.username = r.username
       /\ (/\ resp'.op = "register"
           /\ resp' # resp
           /\ \A p \in Procs : reg[p].pc = "hash" => reg'[p] = reg[p]
           /\ resp'.in.email \notin {UNDEFINED, ""}
           /\ resp'.in.username \notin {UNDEFINED, ""}
           /\ resp'.in.password \notin {UNDEFINED, ""}
           /\ \E u \in users : \/ u.email = resp'.in.email
                               \/ u.username = resp'.in.username)
            => resp'.status = 409 /\ users' = users]_vars

\* The loser of a race for a username: the two requests carried different
\* emails, the winner's row stands, and the loser was refused by the store.
RegisterRaceWitness ==
    /\ resp.op = "register"
    /\ resp.status = 500
    /\ resp.sql = <<"SELECT users", "INSERT users">>
    /\ Cardinality(users) = 1
    /\ \E u \in users : u.username = resp.in.username /\ u.email # resp.in.email

---------------------------------------------------------------------------
(* The url of a record *)

\* C25: every stored record has a non-empty target url: a generate whose url
\* is missing, empty or blanks only is answered 400 and stores nothing.
StoredUrlNonEmpty ==
    /\ \A r \in qrs : r.url # <<>> /\ r.url # UndefinedText
    /\ (/\ resp.op = "generate"
        /\ resp.in.url = UndefinedText \/ AllBlank(resp.in.url))
         => resp.status = 400

\* C26: the image of every stored record is the rendering of the record's
\* stored url, whatever blanks the request url had around it.
ImageOfStoredUrl ==
    \A r \in qrs : r.image_url = generateQR(r.url)

---------------------------------------------------------------------------
(* Deleting twice *)

\* C28: of two deletes of one record by its owner, in either order of
\* arrival, exactly one is answered 200 {success: true, id} and the other
\* 404: a delete by an identified owner removes the one record of that id
\* and owner and answers 200 when there is such a record, and otherwise
\* answers 404 and removes nothing; no other record leaves the table; an id
\* once deleted is not handed out again, so the second delete, whether it
\* follows the first at once or later, finds nothing.
DeleteTwice ==
    [][/\ (/\ resp'.op = "delete"
           /\ resp' # resp
           /\ resp'.handler
           /\ UsableSubject(resp'.user))
            => LET mine == {r \in qrs : /\ r.id = resp'.in.id
                                        /\ r.user_id = Resolved(resp'.user)}
               IN IF mine = {}
                  THEN /\ resp'.status = 404
                       /\ qrs' = qrs
                  ELSE /\ resp'.status = 200
                       /\ resp'.body = [success |-> TRUE, id |-> resp'.in.id]
                       /\ Cardinality(mine) = 1
                       /\ qrs' = qrs \ mine
       /\ (/\ resp.op = "delete"
           /\ resp.status = 200
           /\ resp'.op = "delete"
           /\ resp' # resp
           /\ resp'.in.id = resp.in.id
           /\ resp'.handler
           /\ UsableSubject(resp'.user))
            => resp'.status = 404 /\ qrs' = qrs
       /\ \A r \in qrs' \ qrs : r.id = QrId(nextQrId) /\ nextQrId' > nextQrId
       /\ \A r \in qrs' : \E i \in 1..(nextQrId' - 1) : r.id = QrId(i)]_vars

\* The owner's second delete of a record: the only user there is has
\* generated two records, the first is gone, the second stands, and the
\* delete of the first was answered 404.
DeleteTwiceWitness ==
    /\ resp.op = "delete"
    /\ resp.handler
    /\ UsableSubject(resp.user)
    /\ resp.status = 404
    /\ resp.in.id = QrId(1)
    /\ Cardinality(users) = 1
    /\ nextQrId = 3
    /\ {r.id : r \in qrs} = {QrId(2)}

---------------------------------------------------------------------------
(* One outcome per request *)

\* The statuses each handler sends.
StatusesOf ==
    [register |-> {201, 400, 409, 500}, login |-> {200, 401, 500},
     generate |-> {201, 400, 401, 500}, history |-> {200, 401, 500},
     delete |-> {200, 401, 404, 500}]

\* C27: every request reaches exactly one terminal outcome.  The strict
\* guard either sends a response, which is a 401, or calls next(), never
\* both and never neither; behind it a route's one response is the guard's
\* 401 when the handler was not invoked and the handler's otherwise.  Each
\* of register, login, generate, history and delete ends with one response
\* of its own statuses, 500 when something threw; a register sends nothing
\* while it awaits the store and one response when it resumes.
OneOutcome ==
    [][/\ resp'.op = "authenticateToken"
          => /\ resp'.sent # resp'.next
             /\ resp'.sent => resp'.status = 401
             /\ resp'.next <=> resp'.user.attached
       /\ IsRoute(resp')
          => /\ resp'.handler <=> resp'.user.attached
             /\ ~resp'.handler => resp'.status = 401 /\ resp'.sql = <<>>
       /\ \A p \in Procs :
            /\ (reg[p].pc = "idle" /\ reg'[p].pc = "hash") => resp' = NoResp
            /\ (reg[p].pc = "hash" /\ reg'[p].pc = "idle")
                 => resp'.op = "register" /\ resp'.status \in {201, 500}
       /\ (reg' = reg /\ resp' # resp)
          => \/ resp'.op = "authenticateToken"
             \/ /\ resp'.op \in DOMAIN StatusesOf
                /\ resp'.status \in StatusesOf[resp'.op]
       /\ "fault" \in DOMAIN resp' => resp'.status = 500]_vars

\* The guard has just rejected a history request whose token is forged: one
\* 401, the handler not invoked.
OneOutcomeWitness ==
    /\ resp.op = "history"
    /\ ~resp.handler
    /\ resp.status = 401
    /\ resp.header.present
    /\ \E part \in {resp.header.value[i] : i \in DOMAIN resp.header.value} :
         part.kind = "jwt" /\ part.jwt.sig = "forged"

---------------------------------------------------------------------------
(* Startup *)

\* C29: the server accepts requests only after the database connection test
\* has succeeded: it listens only with a passed test behind it, and a
\* request is answered only by a listening server.  When the test fails
\* the process exits with code 1, and an exited process never listens and
\* answers nothing.
ListenAfterDbTest ==
    [][/\ server'.phase = "listening" => server'.db
       /\ server' # server
          => /\ server = Starting
             /\ server'.phase \in {"listening", "exited"}
             /\ server'.phase = "exited" => server'.code = 1
       /\ server.phase = "exited" => resp' = resp
       /\ resp' # resp => server.phase = "listening" /\ server.db]_vars

\* The server listens, the connection test having passed, and has answered
\* a health request.
ListenAfterDbTestWitness ==
    /\ server.phase = "listening"
    /\ server.db
    /\ resp.op = "health"
    /\ resp.status = 200

---------------------------------------------------------------------------
(* CORS *)

\* Port suffixes of an origin.
Ports == {":5173"}

\* http://localhost, on any port.
IsLocalhostOrigin(origin) ==
    origin \in {<<"http://localhost">>} \cup {<<"http://localhost", p>> : p \in Ports}

\* C30: the CORS policy allows a request only when it carries no Origin
\* header or its origin is http://localhost on any port; a request of any
\* other origin, one whose host merely begins with "localhost" included, is
\* blocked.
CorsLocalhostOnly ==
    resp.op = "health"
    => (resp.allowed <=> (\/ resp.origin \in {UndefinedText, <<>>}
                          \/ IsLocalhostOrigin(resp.origin)))

====
